---- MODULE Spec2Model ----
(***************************************************************************)
(* A model of the Code Researcher system: alert parsing and validation     *)
(* (src/src/alerts/cloudwatch_handler.py), repository ranking              *)
(* (src/src/vcs/github_handler.py) and the research-job processor and job  *)
(* registry (src/src/core/code_researcher_system.py).                      *)
(*                                                                         *)
(* Python strings are sequences of one-character strings, so that lower(), *)
(* the `in` substring test, the \b\w+\b tokenizer and JSON escaping are     *)
(* computed, not assumed.  A value read from a payload is a record with a  *)
(* "type" field: a string ("str", its characters in s), None ("null") or   *)
(* a number ("int", its value in n).                                       *)
(***************************************************************************)
EXTENDS Integers, Sequences, FiniteSets, TLC

\* ------------------------------------------------------------------ bounds
\* Longest alarm name drawn in the alert harness.
MaxNameLen == 2
\* Longest repository list drawn in the ranking harness.
MaxRepos == 4
\* Most jobs admitted in one run of the system.
MaxJobs == 2

\* ----------------------------------------------------------------- strings
Str(chars) == [type |-> "str", s |-> chars, n |-> 0]
Null == [type |-> "null", s |-> <<>>, n |-> 0]
Num(k) == [type |-> "int", s |-> <<>>, n |-> k]
IsStr(v) == v.type = "str"
EmptyStr == Str(<<>>)

UpperOf == [c \in {"a", "b", "l", "r", "m", "o", "k"} |->
              CASE c = "a" -> "A" [] c = "b" -> "B" [] c = "l" -> "L"
                [] c = "r" -> "R" [] c = "m" -> "M" [] c = "o" -> "O"
                [] c = "k" -> "K"]

\* str.lower() on one character.
LowerChar(c) ==
  IF \E l \in DOMAIN UpperOf : UpperOf[l] = c
  THEN CHOOSE l \in DOMAIN UpperOf : UpperOf[l] = c
  ELSE c

\* str.lower()
Lower(s) == [i \in 1..Len(s) |-> LowerChar(s[i])]

\* Python's `p in s` for two strings: p occurs in s as a contiguous run.
Contains(s, p) ==
  \E i \in 0..(Len(s) - Len(p)) : \A k \in 1..Len(p) : s[i + k] = p[k]

\* All strings over alphabet of length at most n.
StringsUpTo(alphabet, n) == UNION {[1..k -> alphabet] : k \in 0..n}

ALARM == <<"A", "L", "A", "R", "M">>
OK == <<"O", "K">>

\* ------------------------------------------------------------------- JSON
\* The text of a JSON document is a string like any other: a sequence of
\* characters, with a key name and the literal null each kept as one unit.
Quote == "\""
Backslash == "\\"
DigitOf == ("0" :> 0) @@ ("1" :> 1) @@ ("2" :> 2) @@ ("3" :> 3) @@ ("4" :> 4)
           @@ ("5" :> 5) @@ ("6" :> 6) @@ ("7" :> 7) @@ ("8" :> 8) @@ ("9" :> 9)

RECURSIVE EscapeQuoteOnly(_)
\* Escape with the backslash itself left unescaped.
EscapeQuoteOnly(s) ==
  IF s = <<>> THEN <<>>
  ELSE (IF Head(s) = Quote THEN <<Backslash, Head(s)>> ELSE <<Head(s)>>)
       \o EscapeQuoteOnly(Tail(s))

RECURSIVE Escape(_)
\* json.dumps of the characters of a string: '"' and '\' get a backslash.
Escape(s) ==
  IF s = <<>> THEN <<>>
  ELSE (IF Head(s) \in {Quote, Backslash} THEN <<Backslash, Head(s)>>
        ELSE <<Head(s)>>) \o Escape(Tail(s))

\* The keys a payload of the model may hold, in the order json.dumps emits
\* them (a dict is read back by key, so the order carries no meaning).
AllKeys == <<"AlarmName", "AlarmDescription", "MetricName", "Namespace",
             "StateChangeTime", "NewStateValue", "NewStateReason", "Region",
             "AWSAccountId", "invalid", "Type", "Message">>

DumpsValue(v) ==
  CASE v.type = "str" -> <<Quote>> \o Escape(v.s) \o <<Quote>>
    [] v.type = "null" -> <<"null">>
    [] v.type = "int" -> <<CHOOSE c \in DOMAIN DigitOf : DigitOf[c] = v.n>>

RECURSIVE DumpsMembers(_, _, _)
DumpsMembers(d, i, first) ==
  IF i > Len(AllKeys) THEN <<>>
  ELSE IF AllKeys[i] \in DOMAIN d
  THEN (IF first THEN <<>> ELSE <<",">>)
       \o <<Quote, AllKeys[i], Quote, ":">> \o DumpsValue(d[AllKeys[i]])
       \o DumpsMembers(d, i + 1, FALSE)
  ELSE DumpsMembers(d, i + 1, first)

\* json.dumps(d) for a dict d with string keys and scalar values.
Dumps(d) == <<"{">> \o DumpsMembers(d, 1, TRUE) \o <<"}">>

Dict(d) == [type |-> "dict", s |-> <<>>, n |-> 0, d |-> d]
Decoded(v) == [ok |-> TRUE, value |-> v]
JSONDecodeError == [ok |-> FALSE, value |-> Null]
Scanned(v, next) == [ok |-> TRUE, value |-> v, next |-> next]
ScanError == [ok |-> FALSE, value |-> Null, next |-> 0]

RECURSIVE ScanString(_, _, _)
\* The string literal whose opening quote precedes position i: its characters
\* unescaped, and the position after its closing quote.
ScanString(text, i, acc) ==
  IF i > Len(text) THEN ScanError
  ELSE IF text[i] = Quote THEN Scanned(Str(acc), i + 1)
  ELSE IF text[i] = Backslash
  THEN IF i + 1 <= Len(text) /\ text[i + 1] \in {Quote, Backslash}
       THEN ScanString(text, i + 2, Append(acc, text[i + 1]))
       ELSE ScanError
  ELSE ScanString(text, i + 1, Append(acc, text[i]))

\* The scalar value at position i.
ScanValue(text, i) ==
  IF i > Len(text) THEN ScanError
  ELSE IF text[i] = Quote THEN ScanString(text, i + 1, <<>>)
  ELSE IF text[i] = "null" THEN Scanned(Null, i + 1)
  ELSE IF text[i] \in DOMAIN DigitOf THEN Scanned(Num(DigitOf[text[i]]), i + 1)
  ELSE ScanError

\* A key of the model is one unit; any other key is one the program never reads.
KeyName(s) == IF Len(s) = 1 THEN s[1] ELSE "?"

RECURSIVE LoadsMembers(_, _, _)
\* The members of an object from position i on; a repeated key keeps its
\* last value, as Python's decoder does.
LoadsMembers(text, i, acc) ==
  IF i <= Len(text) /\ text[i] = Quote
  THEN LET k == ScanString(text, i + 1, <<>>)
       IN IF ~k.ok \/ k.next > Len(text) THEN JSONDecodeError
          ELSE IF text[k.next] # ":" THEN JSONDecodeError
          ELSE LET v == ScanValue(text, k.next + 1)
                   acc2 == (KeyName(k.value.s) :> v.value) @@ acc
               IN IF ~v.ok \/ v.next > Len(text) THEN JSONDecodeError
                  ELSE IF text[v.next] = "," THEN LoadsMembers(text, v.next + 1, acc2)
                  ELSE IF text[v.next] = "}" /\ v.next = Len(text)
                  THEN Decoded(Dict(acc2))
                  ELSE JSONDecodeError
  ELSE JSONDecodeError

\* json.loads(text)
Loads(text) ==
  IF text = <<>> THEN JSONDecodeError
  ELSE IF text[1] = "{"
  THEN IF text = <<"{", "}">> THEN Decoded(Dict(<<>>))
       ELSE LoadsMembers(text, 2, <<>>)
  ELSE LET v == ScanValue(text, 1)
       IN IF v.ok /\ v.next = Len(text) + 1 THEN Decoded(v.value)
          ELSE JSONDecodeError

\* ------------------------------------------------------------ AlertRecord
AlertFields == {"alarm_name", "alarm_description", "metric_name", "namespace",
                "timestamp", "state", "reason", "region", "account_id"}

\* The payload key each field is read from.
KeyOf == [alarm_name |-> "AlarmName", alarm_description |-> "AlarmDescription",
          metric_name |-> "MetricName", namespace |-> "Namespace",
          timestamp |-> "StateChangeTime", state |-> "NewStateValue",
          reason |-> "NewStateReason", region |-> "Region",
          account_id |-> "AWSAccountId"]

\* dict.get(key, default)
Get(d, key, default) == IF key \in DOMAIN d THEN d[key] ELSE default

Parsed(alert) == [ok |-> TRUE, alert |-> alert]
ValueError == [ok |-> FALSE, alert |-> <<>>]

\* cls(alarm_name=message_data.get('AlarmName', ''), ...)
AlertOf(message_data) ==
  [f \in AlertFields |-> Get(message_data, KeyOf[f], EmptyStr)]

\* CloudWatchAlert.from_sns_message: a payload with a 'Message' key is read
\* from the JSON text under it, any other payload directly; every exception
\* (json.loads of a non-string, a decode error, .get on a non-dict) becomes
\* ValueError.
from_sns_message(sns_message) ==
  IF "Message" \in DOMAIN sns_message
  THEN LET m == sns_message["Message"]
       IN IF m.type # "str" THEN ValueError
          ELSE LET message_data == Loads(m.s)
               IN IF ~message_data.ok THEN ValueError
                  ELSE IF message_data.value.type # "dict" THEN ValueError
                  ELSE Parsed(AlertOf(message_data.value.d))
  ELSE Parsed(AlertOf(sns_message))

RECURSIVE ValidateLoopCaseSensitive(_, _, _)
\* ValidateLoop with the pattern looked up in the name as written.
ValidateLoopCaseSensitive(alert, ignore_patterns, i) ==
  IF i > Len(ignore_patterns) THEN "True"
  ELSE IF ~IsStr(alert.alarm_name) THEN "AttributeError"
  ELSE IF Contains(alert.alarm_name.s, ignore_patterns[i]) THEN "False"
  ELSE ValidateLoopCaseSensitive(alert, ignore_patterns, i + 1)

RECURSIVE ValidateLoop(_, _, _)
\* for pattern in ignore_patterns: if pattern in alert.alarm_name.lower()
ValidateLoop(alert, ignore_patterns, i) ==
  IF i > Len(ignore_patterns) THEN "True"
  ELSE IF ~IsStr(alert.alarm_name) THEN "AttributeError"
  ELSE IF Contains(Lower(alert.alarm_name.s), ignore_patterns[i]) THEN "False"
  ELSE ValidateLoop(alert, ignore_patterns, i + 1)

\* validate_alert without the test of the state.
ValidateAnyState(alert, ignore_patterns) == ValidateLoop(alert, ignore_patterns, 1)

\* CloudWatchAlertHandler.validate_alert: "True", "False", or the exception
\* .lower() raises on a name that is no string.
validate_alert(alert, ignore_patterns) ==
  IF alert.state # Str(ALARM) THEN "False"
  ELSE ValidateLoop(alert, ignore_patterns, 1)

\* ---------------------------------------------------------------- ranking
Letters == DOMAIN UpperOf \cup {UpperOf[c] : c \in DOMAIN UpperOf} \cup {"t", "h", "e"}
\* The characters the regular expression class \w matches.
WordChars == Letters \cup DOMAIN DigitOf \cup {"_"}

RECURSIVE FindWords(_, _, _, _)
\* re.findall(r'\b\w+\b', text): the maximal runs of word characters.
FindWords(text, i, word, acc) ==
  IF i > Len(text) THEN (IF word = <<>> THEN acc ELSE Append(acc, word))
  ELSE IF text[i] \in WordChars
  THEN FindWords(text, i + 1, Append(word, text[i]), acc)
  ELSE FindWords(text, i + 1, <<>>, IF word = <<>> THEN acc ELSE Append(acc, word))

\* The stop words long enough to pass the length filter, in the model's letters.
stop_words == {<<"t", "h", "e">>}

Words(ws) == [ok |-> TRUE, words |-> ws]
Raised == [ok |-> FALSE, words |-> <<>>]

\* GitHubHandler._extract_words_from_text: text.lower() raises on a value
\* that is no string.
extract_words_from_text(text) ==
  IF ~IsStr(text) THEN Raised
  ELSE Words(SelectSeq(FindWords(Lower(text.s), 1, <<>>, <<>>),
                       LAMBDA w : w \notin stop_words /\ Len(w) > 2))

\* Python's truth value of a payload value.
Truthy(v) == (v.type = "str" /\ v.s # <<>>) \/ (v.type = "int" /\ v.n # 0)

Range(seq) == {seq[i] : i \in 1..Len(seq)}

\* GitHubHandler._extract_alert_keywords for a CloudWatchAlert (which has an
\* alarm_name and no extract_keywords method): the words of the alarm name,
\* of the namespace and of the metric name, as a set; the order list(set(..))
\* gives them is left to the caller.
extract_alert_keywords(alert) ==
  LET name == extract_words_from_text(alert.alarm_name)
      ns == IF Truthy(alert.namespace)
            THEN extract_words_from_text(alert.namespace) ELSE Words(<<>>)
      metric == IF Truthy(alert.metric_name)
                THEN extract_words_from_text(alert.metric_name) ELSE Words(<<>>)
  IN IF name.ok /\ ns.ok /\ metric.ok
     THEN [ok |-> TRUE,
           words |-> {w \in Range(name.words \o ns.words \o metric.words) : Len(w) > 2}]
     ELSE [ok |-> FALSE, words |-> {}]

\* str.replace(old, new) for single characters.
Replace(s, old, new) == [i \in 1..Len(s) |-> IF s[i] = old THEN new ELSE s[i]]

RECURSIVE Split(_, _, _, _)
\* str.split(): the maximal runs of characters that are not white space.
Split(text, i, word, acc) ==
  IF i > Len(text) THEN (IF word = <<>> THEN acc ELSE Append(acc, word))
  ELSE IF text[i] = " "
  THEN Split(text, i + 1, <<>>, IF word = <<>> THEN acc ELSE Append(acc, word))
  ELSE Split(text, i + 1, Append(word, text[i]), acc)

\* The terms a word of the reason is kept for.
technical_keywords ==
  {<<"e", "r", "r", "o", "r">>, <<"e", "x", "c", "e", "p", "t", "i", "o", "n">>,
   <<"t", "i", "m", "e", "o", "u", "t">>, <<"f", "a", "i", "l">>,
   <<"h", "i", "g", "h">>, <<"l", "o", "w">>}

\* text.lower().replace(a, ' ').replace(b, ' ').split(), the words longer
\* than two characters.
WordsSplitOn(text, a, b) ==
  SelectSeq(Split(Replace(Replace(Lower(text), a, " "), b, " "), 1, <<>>, <<>>),
            LAMBDA word : Len(word) > 2)

\* CloudWatchAlertHandler.extract_keywords: the set of the keywords, or the
\* exception .lower() raises on a value that is no string.
extract_keywords(alert) ==
  IF \/ ~IsStr(alert.alarm_name)
     \/ Truthy(alert.namespace) /\ ~IsStr(alert.namespace)
     \/ Truthy(alert.metric_name) /\ ~IsStr(alert.metric_name)
     \/ Truthy(alert.reason) /\ ~IsStr(alert.reason)
  THEN [ok |-> FALSE, words |-> {}]
  ELSE
    LET alarm_words == WordsSplitOn(alert.alarm_name.s, "-", "_")
        namespace_words == IF Truthy(alert.namespace)
                           THEN WordsSplitOn(alert.namespace.s, "/", "-") ELSE <<>>
        metric_words == IF Truthy(alert.metric_name)
                        THEN WordsSplitOn(alert.metric_name.s, "-", "_") ELSE <<>>
        reason_words == IF Truthy(alert.reason)
                        THEN Split(Lower(alert.reason.s), 1, <<>>, <<>>) ELSE <<>>
        technical == SelectSeq(reason_words,
                       LAMBDA word : \E tech \in technical_keywords : Contains(word, tech))
    IN [ok |-> TRUE,
        words |-> Range(alarm_words \o namespace_words \o metric_words \o technical)]

\* A score is the exact value num/den of the source's expression together with
\* ulp, the number of double-precision steps by which the IEEE-754 result of
\* the source's additions and multiplications lies above the double nearest to
\* num/den.  Scores compare as the doubles do.
Score(num, den, ulp) == [num |-> num, den |-> den, ulp |-> ulp]
Less(a, b) ==
  \/ a.num * b.den < b.num * a.den
  \/ a.num * b.den = b.num * a.den /\ a.ulp < b.ulp
\* No threshold at all.
NoThreshold == Score(0 - 1, 10, 0)
Threshold == Score(1, 10, 0)
One == Score(1, 1, 0)

\* The rounding of len(overlap)/n*0.8 (or 0.3) + boost + len(name_overlap)/n*0.3
\* in double precision, for n <= 3 keywords: <<n, repository has keywords,
\* overlap, boost in tenths, name overlap>>.
RoundedUp == {<<2, TRUE, 1, 2, 0>>, <<2, TRUE, 1, 2, 1>>, <<2, TRUE, 1, 2, 2>>,
              <<2, TRUE, 2, 0, 1>>, <<3, TRUE, 1, 1, 0>>, <<3, TRUE, 1, 1, 3>>,
              <<3, TRUE, 2, 2, 0>>}
RoundedDown == {<<2, FALSE, 0, 0, 1>>, <<3, FALSE, 0, 0, 1>>, <<3, TRUE, 0, 0, 1>>,
                <<3, TRUE, 0, 0, 2>>, <<3, TRUE, 1, 2, 3>>, <<3, TRUE, 2, 0, 3>>,
                <<3, TRUE, 2, 1, 2>>}
Rounding(n, has_keywords, overlap, boost, name_overlap) ==
  LET case == <<n, has_keywords, overlap, boost, name_overlap>>
  IN IF case \in RoundedUp THEN 1 ELSE IF case \in RoundedDown THEN -1 ELSE 0

\* The same boost for every priority.
PriorityBoostFlat(priority) == 1

\* priority_boost.get(priority, 0.0), in tenths.
priority_boost(priority) ==
  CASE priority = "high" -> 2 [] priority = "medium" -> 1 [] OTHER -> 0

Min(a, b) == IF a <= b THEN a ELSE b

\* GitHubHandler._calculate_relevance_score; alert_keywords is the list of
\* distinct keywords.
calculate_relevance_score(alert_keywords, repo_config) ==
  IF alert_keywords = <<>> THEN Score(0, 10, 0)
  ELSE
    LET n == Len(alert_keywords)
        alert_set == Range(alert_keywords)
        has_keywords == repo_config.alert_keywords # <<>>
        repo_set == {Lower(kw) : kw \in Range(repo_config.alert_keywords)}
        overlap == Cardinality(alert_set \cap repo_set)
        boost == priority_boost(repo_config.priority)
        repo_name_words == extract_words_from_text(Str(repo_config.name)).words
        name_overlap == Cardinality(alert_set \cap Range(repo_name_words))
        num == (IF has_keywords THEN 8 * overlap ELSE 3 * n)
               + boost * n + 3 * name_overlap
        score == Score(num, 10 * n,
                       Rounding(n, has_keywords, IF has_keywords THEN overlap ELSE 0,
                                boost, name_overlap))
    IN IF Less(One, score) THEN One ELSE score

Scored(repo_config, score) == [repo |-> repo_config, score |-> score]

RECURSIVE InsertBeforeEqual(_, _)
\* InsertDescending with x put before the entries of equal score.
InsertBeforeEqual(sorted, x) ==
  IF sorted = <<>> THEN <<x>>
  ELSE IF ~Less(x.score, Head(sorted).score) THEN <<x>> \o sorted
  ELSE <<Head(sorted)>> \o InsertBeforeEqual(Tail(sorted), x)

RECURSIVE InsertDescending(_, _)
\* One step of a stable descending sort: x goes after every entry whose score
\* is not smaller.
InsertDescending(sorted, x) ==
  IF sorted = <<>> THEN <<x>>
  ELSE IF Less(Head(sorted).score, x.score) THEN <<x>> \o sorted
  ELSE <<Head(sorted)>> \o InsertDescending(Tail(sorted), x)

RECURSIVE SortDescending(_, _)
\* list.sort(key=lambda x: x[1], reverse=True): stable, entries with equal
\* scores keep their order.
SortDescending(list, sorted) ==
  IF list = <<>> THEN sorted
  ELSE SortDescending(Tail(list), InsertDescending(sorted, Head(list)))

RECURSIVE RelevantRepos(_, _, _)
\* The loop over repo_configs: the entries scoring above 0.1, in input order.
RelevantRepos(alert_keywords, repo_configs, i) ==
  IF i > Len(repo_configs) THEN <<>>
  ELSE LET relevance_score == calculate_relevance_score(alert_keywords, repo_configs[i])
       IN (IF Less(Threshold, relevance_score)
           THEN <<Scored(repo_configs[i], relevance_score)>> ELSE <<>>)
          \o RelevantRepos(alert_keywords, repo_configs, i + 1)

Top(list, k) == SubSeq(list, 1, Min(k, Len(list)))

\* The orders in which list(set(..)) may give the keywords.
Orderings(set) ==
  {seq \in [1..Cardinality(set) -> set] : Range(seq) = set}

\* GitHubHandler.identify_relevant_repositories, given the order in which the
\* keyword list came out; any exception gives the empty list.
identify_relevant_repositories(alert, repo_configs, alert_keywords) ==
  IF ~extract_alert_keywords(alert).ok THEN <<>>
  ELSE Top(SortDescending(RelevantRepos(alert_keywords, repo_configs, 1), <<>>), 3)

\* ---------------------------------------------------------------- state
VARIABLES
  config,       \* the system's configuration (tokens, repositories, patterns)
  active_jobs,  \* the registry: job id -> ResearchJob
  task,         \* each job's _process_research_job task: its position and locals
  running,      \* the job whose task holds the event loop, or NoJob
  clock,        \* datetime.now(): the number of readings so far
  returned,     \* what the last call of process_alert gave its caller
  harness       \* function harness: the inputs drawn and the results computed

sysvars == <<config, active_jobs, task, running, clock, returned>>
vars == <<config, active_jobs, task, running, clock, returned, harness>>

NoJob == 0
Idle == [kind |-> "idle"]

\* The system as constructed with an empty configuration and no alert yet.
SysIdle ==
  /\ config = [access_token |-> "absent", repositories |-> <<>>,
               ignore_patterns |-> <<>>]
  /\ active_jobs = <<>>
  /\ task = <<>>
  /\ running = NoJob
  /\ clock = 0
  /\ returned = [kind |-> "none", alert |-> <<>>, job_id |-> NoJob, jobs_before |-> {},
                 response |-> [status_code |-> "", message |-> "", job_id |-> NoJob],
                 effects |-> [get_metric_statistics |-> FALSE, logged |-> <<>>]]

\* ------------------------------------------------------------ the system
JobIds == 1..MaxJobs
NoTime == 0
Terminal == {"completed", "failed"}

\* An error message: None (set = FALSE) or a string, which may be empty.
NoMessage == [set |-> FALSE, text |-> "", about |-> <<>>]
Msg(text, about) == [set |-> TRUE, text |-> text, about |-> about]
\* Python's truth value of an Optional[str].
TruthyMessage(m) == m.set /\ m.text # ""

\* RepositoryConfig.full_name
full_name(repo_config) == <<repo_config.owner, "/">> \o repo_config.name

\* What CodeResearcherOrchestrator.analyze_crash may return: the agent's run
\* either ends (analysis_complete, with the tool results of its messages, each
\* named by the shape of its content) or raises, which analyze_crash turns
\* into a result with analysis_complete False and no messages.
\* What str(e) may be when the agent raises (agents, lines 535-542).
AgentError == Msg("agent failed", <<>>)
AgentResult(complete, tool_results) ==
  [set |-> TRUE, analysis_complete |-> complete, tool_results |-> tool_results,
   error |-> IF complete THEN NoMessage ELSE AgentError]
NoResult ==
  [set |-> FALSE, analysis_complete |-> FALSE, tool_results |-> <<>>, error |-> NoMessage]
AgentResults ==
  {AgentResult(FALSE, <<>>), AgentResult(TRUE, <<"fix_needed_false">>),
   AgentResult(TRUE, <<"proposed_changes">>), AgentResult(TRUE, <<"not_json">>)}

\* The test _extract_fixes_from_orchestrator_response applies to the decoded
\* content of one tool result.
IsFix(tool_result) ==
  tool_result \in {"patches", "proposed_changes", "fix_needed_true", "not_json"}

\* CodeResearcherSystem._extract_fixes_from_orchestrator_response
extract_fixes_from_orchestrator_response(orchestrator_result) ==
  SelectSeq(orchestrator_result.tool_results, IsFix)

\* CodeResearcherSystem._get_configured_repositories: the configured
\* repositories, or KeyError when there are some and no 'access_token' key.
get_configured_repositories ==
  IF config.repositories # <<>> /\ config.access_token = "absent"
  THEN [ok |-> FALSE, repos |-> <<>>]
  ELSE [ok |-> TRUE, repos |-> config.repositories]

\* self.github_handler is set when the token is present and not empty.
github_handler == config.access_token = "set"

\* The CloudWatch statistics call of _enrich_alert_context is made only for
\* an alert with a metric name and a namespace; with datapoints it appends
\* to the reason.
Enrichments(alert) ==
  IF Truthy(alert.metric_name) /\ Truthy(alert.namespace) /\ IsStr(alert.reason)
  THEN {alert, [alert EXCEPT !.reason = Str(alert.reason.s \o <<"(", ")">>)]}
  ELSE {alert}

NewJob(alert, repositories, now) ==
  [alert |-> alert, repositories |-> repositories, status |-> "pending",
   orchestrator_response |-> NoResult, pull_requests |-> <<>>,
   error_message |-> NoMessage, created_at |-> now, completed_at |-> NoTime]

\* The task created for a job: its position in _process_research_job, the
\* ranking it computed, the index of the candidate in hand, the result of
\* analyze_crash in hand, and what became of each candidate so far.
NewTask ==
  [pc |-> "start", relevant_repos |-> <<>>, i |-> 0,
   orchestrator_result |-> NoResult, log |-> <<>>]

\* What cloudwatch_webhook and test_alert answer: the alert is handed to
\* process_alert_background, which runs after the answer and keeps what
\* process_alert returns or raises to itself.
QueuedResponse ==
  [status_code |-> "200", message |-> "queued for processing", job_id |-> NoJob]

\* What one call of process_alert does besides returning: whether
\* _enrich_alert_context asked CloudWatch for the metric's statistics
\* (cloudwatch_handler lines 128-136, for a parsed alert with a metric name and
\* a namespace), and the messages it logged, in order: cloudwatch_handler
\* lines 111, 115 and 160/167, code_researcher_system lines 78, 93 and 102.
Effects(kind, alert) ==
  [get_metric_statistics |->
     kind # "ValueError" /\ Truthy(alert.metric_name) /\ Truthy(alert.namespace),
   logged |->
     CASE kind = "ValueError" ->
            <<"Error processing CloudWatch alert", "Error processing alert">>
       [] kind = "None" ->
            <<"Processed CloudWatch alert", "Skipping alert", "skipped - validation failed">>
       [] kind = "job_id" -> <<"Processed CloudWatch alert", "Created research job">>
       [] OTHER -> <<"Processed CloudWatch alert", "Error processing alert">>]

Return(kind, alert, job_id) ==
  [kind |-> kind, alert |-> alert, job_id |-> job_id,
   jobs_before |-> DOMAIN active_jobs, response |-> QueuedResponse,
   effects |-> Effects(kind, alert)]

\* Any id, used or not.
AnyJobId == JobIds

\* CodeResearcherSystem._generate_job_id: what uuid4 may give, an id that no
\* earlier call gave.
generate_job_id == JobIds \ DOMAIN active_jobs

\* CodeResearcherSystem.process_alert on one payload, up to its return: parse
\* and enrich, validate, and for an admitted alert create the job under a
\* fresh uuid4 and schedule its task.  An exception goes to the caller.
ProcessAlert(alert_data) ==
  /\ running = NoJob
  /\ Cardinality(DOMAIN active_jobs) < MaxJobs
  /\ harness = Idle
  /\ LET parsed == from_sns_message(alert_data)
     IN IF ~parsed.ok
        THEN /\ returned' = Return("ValueError", <<>>, NoJob)
             /\ UNCHANGED <<active_jobs, task, clock>>
        ELSE \E alert \in Enrichments(parsed.alert) :
               LET valid == validate_alert(alert, config.ignore_patterns)
                   repositories == get_configured_repositories
               IN IF valid = "False"
                  THEN /\ returned' = Return("None", alert, NoJob)
                       /\ UNCHANGED <<active_jobs, task, clock>>
                  ELSE IF valid = "AttributeError"
                  THEN /\ returned' = Return("AttributeError", alert, NoJob)
                       /\ UNCHANGED <<active_jobs, task, clock>>
                  ELSE IF ~repositories.ok
                  THEN /\ returned' = Return("KeyError", alert, NoJob)
                       /\ UNCHANGED <<active_jobs, task, clock>>
                  ELSE \E job_id \in generate_job_id :
                         /\ clock' = clock + 1
                         /\ active_jobs' = (job_id :> NewJob(alert, repositories.repos, clock + 1))
                                           @@ active_jobs
                         /\ task' = (job_id :> NewTask) @@ task
                         /\ returned' = Return("job_id", alert, job_id)
  /\ UNCHANGED <<config, running, harness>>

\* Lines 113-116: the task gets the event loop and marks the job analyzing.
\* Neither awaited coroutine (analyze_crash, _create_pull_request_for_fixes)
\* has a suspension point of its own, so the task keeps the loop to its end.
Begin(j) ==
  /\ running = NoJob /\ j \in DOMAIN task /\ task[j].pc = "start"
  /\ running' = j
  /\ active_jobs' = [active_jobs EXCEPT ![j].status = "analyzing"]
  /\ task' = [task EXCEPT ![j].pc = "identify"]
  /\ UNCHANGED <<config, clock, returned, harness>>

\* Ended with the task left where it can be started again.
EndedAtStart(t) == [t EXCEPT !.pc = "start"]

\* The task ends and gives the event loop back.
Ended(t) == [t EXCEPT !.pc = "done"]

\* Failed that records no message.
FailedWithoutMessage(job, message) == [job EXCEPT !.status = "failed"]

\* Lines 119-120 and 129-130: the job fails with a message.
Failed(job, message) == [job EXCEPT !.status = "failed", !.error_message = message]

\* Lines 118-134: fail for want of a GitHub handler or of a relevant
\* repository (both returns leave completed_at alone), else enter the loop.
Identify(j) ==
  /\ running = j /\ task[j].pc = "identify"
  /\ IF ~github_handler
     THEN /\ active_jobs' = [active_jobs EXCEPT
               ![j] = Failed(@, Msg("GitHub handler not configured", <<>>))]
          /\ task' = [task EXCEPT ![j] = Ended(@)]
          /\ running' = NoJob
     ELSE \E alert_keywords \in Orderings(extract_alert_keywords(active_jobs[j].alert).words) :
            LET relevant_repos == identify_relevant_repositories(
                                    active_jobs[j].alert, active_jobs[j].repositories,
                                    alert_keywords)
            IN IF relevant_repos = <<>>
               THEN /\ active_jobs' = [active_jobs EXCEPT
                         ![j] = Failed(@, Msg("No relevant repositories found", <<>>))]
                    /\ task' = [task EXCEPT ![j] = Ended(@)]
                    /\ running' = NoJob
               ELSE /\ task' = [task EXCEPT ![j].pc = "clone", ![j].i = 1,
                                            ![j].relevant_repos = relevant_repos]
                    /\ UNCHANGED <<active_jobs, running>>
  /\ UNCHANGED <<config, clock, returned, harness>>

\* The candidate in hand.
Candidate(j) == task[j].relevant_repos[task[j].i].repo

\* NextCandidate for a loop that ends at the first pull request.
NextCandidateUntilSuccess(t, outcome) ==
  [t EXCEPT !.log = Append(@, outcome),
            !.orchestrator_result = NoResult,
            !.i = @ + 1,
            !.pc = IF outcome.what # "pull_request" /\ t.i + 1 <= Min(2, Len(t.relevant_repos))
                   THEN "clone" ELSE "finish"]

\* NextCandidate for a loop over all of relevant_repos.
NextCandidateUncapped(t, outcome) ==
  [t EXCEPT !.log = Append(@, outcome),
            !.orchestrator_result = NoResult,
            !.i = @ + 1,
            !.pc = IF t.i + 1 <= Len(t.relevant_repos) THEN "clone" ELSE "finish"]

\* The end of one pass of `for ... in relevant_repos[:2]`: on to the next of
\* the first two candidates, or out of the loop.
NextCandidate(t, outcome) ==
  [t EXCEPT !.log = Append(@, outcome),
            !.orchestrator_result = NoResult,
            !.i = @ + 1,
            !.pc = IF t.i + 1 <= Min(2, Len(t.relevant_repos)) THEN "clone" ELSE "finish"]

Outcome(what, message) == [what |-> what, message |-> message]

\* What str(e) may be when the clone of a repository raises.
CloneErrors(repo_config) == {Msg("clone failed", full_name(repo_config))}
\* What str(e) may be when the creation of a pull request raises.
PullRequestErrors(repo_config) == {Msg("pull request failed", full_name(repo_config))}

\* Line 144, the clone succeeding.
CloneOk(j) ==
  /\ running = j /\ task[j].pc = "clone"
  /\ task' = [task EXCEPT ![j].pc = "analyze"]
  /\ UNCHANGED <<config, active_jobs, running, clock, returned, harness>>

\* Line 144 raising: lines 179-181 record str(e) and the loop goes on.
CloneRaises(j) ==
  /\ running = j /\ task[j].pc = "clone"
  /\ \E e \in CloneErrors(Candidate(j)) :
       /\ active_jobs' = [active_jobs EXCEPT ![j].error_message = e]
       /\ task' = [task EXCEPT ![j] = NextCandidate(@, Outcome("raised", e))]
  /\ UNCHANGED <<config, running, clock, returned, harness>>

\* Lines 147-165: analyze_crash returns (it catches what the agent raises);
\* the result is stored, a complete analysis moves the job to creating_prs,
\* and fix proposals lead on to the pull request.
Analyze(j) ==
  /\ running = j /\ task[j].pc = "analyze"
  /\ \E orchestrator_result \in AgentResults :
       LET fix_proposals == extract_fixes_from_orchestrator_response(orchestrator_result)
       IN /\ active_jobs' = [active_jobs EXCEPT
               ![j].orchestrator_response = orchestrator_result,
               ![j].status = IF orchestrator_result.analysis_complete
                             THEN "creating_prs" ELSE @]
          /\ task' = [task EXCEPT ![j] =
               IF orchestrator_result.analysis_complete /\ fix_proposals # <<>>
               THEN [@ EXCEPT !.pc = "create_pr",
                              !.orchestrator_result = orchestrator_result]
               ELSE NextCandidate(@, Outcome("nothing", NoMessage))]
  /\ UNCHANGED <<config, running, clock, returned, harness>>

\* PullRequestAppended that also forgets the error recorded so far.
PullRequestAppendedErrorCleared(job, pr_url) ==
  [job EXCEPT !.pull_requests = Append(@, pr_url), !.error_message = NoMessage]

\* Lines 172-175: job.pull_requests gets the URL.
PullRequestAppended(job, pr_url) ==
  [job EXCEPT !.pull_requests = Append(@, pr_url)]

\* Lines 166-177: the pull request is created and its URL appended.
CreatePullRequestOk(j) ==
  /\ running = j /\ task[j].pc = "create_pr"
  /\ LET pr_url == full_name(Candidate(j))
     IN /\ active_jobs' = [active_jobs EXCEPT ![j] = PullRequestAppended(@, pr_url)]
        /\ task' = [task EXCEPT ![j] = NextCandidate(@, Outcome("pull_request", NoMessage))]
  /\ UNCHANGED <<config, running, clock, returned, harness>>

\* Line 166 raising: lines 179-181 record str(e) and the loop goes on.
CreatePullRequestRaises(j) ==
  /\ running = j /\ task[j].pc = "create_pr"
  /\ \E e \in PullRequestErrors(Candidate(j)) :
       /\ active_jobs' = [active_jobs EXCEPT ![j].error_message = e]
       /\ task' = [task EXCEPT ![j] = NextCandidate(@, Outcome("raised", e))]
  /\ UNCHANGED <<config, running, clock, returned, harness>>

\* Finished with the status taken from the analysis instead of the pull
\* requests.
FinishedByAnalysis(job, now) ==
  IF job.orchestrator_response.analysis_complete
  THEN [job EXCEPT !.status = "completed", !.completed_at = now]
  ELSE [job EXCEPT !.status = "failed", !.completed_at = now,
                   !.error_message = IF TruthyMessage(@) THEN @
                                     ELSE Msg("No pull requests created", <<>>)]

\* Finished without the default message.
FinishedWithoutDefault(job, now) ==
  [job EXCEPT !.status = IF job.pull_requests # <<>> THEN "completed" ELSE "failed",
              !.completed_at = now]

\* The task ends and leaves the job as it is.
FinishedUnchanged(job, now) == job

\* Finished with created_at stamped anew.
FinishedRestamped(job, now) ==
  [job EXCEPT !.status = IF job.pull_requests # <<>> THEN "completed" ELSE "failed",
              !.completed_at = now, !.created_at = now]

\* Lines 183-193: the final status, the default message, completed_at.
Finished(job, now) ==
  IF job.pull_requests # <<>>
  THEN [job EXCEPT !.status = "completed", !.completed_at = now]
  ELSE [job EXCEPT !.status = "failed", !.completed_at = now,
                   !.error_message = IF TruthyMessage(@) THEN @
                                     ELSE Msg("No pull requests created", <<>>)]

Finish(j) ==
  /\ running = j /\ task[j].pc = "finish"
  /\ clock' = clock + 1
  /\ active_jobs' = [active_jobs EXCEPT ![j] = Finished(@, clock + 1)]
  /\ task' = [task EXCEPT ![j] = Ended(@)]
  /\ running' = NoJob
  /\ UNCHANGED <<config, returned, harness>>

\* CodeResearcherSystem.get_job_status for a registered job.
JobStatus(j) ==
  LET job == active_jobs[j]
  IN [job_id |-> j, status |-> job.status,
      alert |-> [alarm_name |-> job.alert.alarm_name,
                 timestamp |-> job.alert.timestamp, state |-> job.alert.state],
      repositories_configured |-> Len(job.repositories),
      pull_requests_created |-> Len(job.pull_requests),
      error_message |-> job.error_message,
      has_orchestrator_response |-> job.orchestrator_response.set,
      created_at |-> job.created_at, completed_at |-> job.completed_at]

\* ------------------------------------------------- alert harness inputs
NameChars == {"a", "A", "-"}
Absent == [type |-> "absent", s |-> <<>>, n |-> 0]

NameVals == {Str(s) : s \in StringsUpTo(NameChars, MaxNameLen)} \cup {Null, Num(5), Absent}
StateVals == {Str(ALARM), Str(OK), Str(Lower(ALARM)), EmptyStr, Null, Absent}
OtherKeys == {"AlarmDescription", "MetricName", "Namespace", "StateChangeTime",
              "NewStateReason", "Region", "AWSAccountId"}
OtherVals == {Null, Str(<<Backslash, Quote, "x">>)}

\* A dict from the (key, value) choices, a key whose choice is Absent left out.
DictOf(choice) ==
  [k \in {k \in DOMAIN choice : choice[k] # Absent} |-> choice[k]]

\* Direct alarm payloads: a name, a state, at most one other recognized field
\* and possibly an unrecognized key.
DirectPayloads ==
  {DictOf([k \in {"AlarmName", "NewStateValue", "invalid", o} |->
             CASE k = "AlarmName" -> n
               [] k = "NewStateValue" -> st
               [] k = "invalid" -> inv
               [] OTHER -> ov]) :
     n \in NameVals, st \in StateVals, inv \in {Absent, Str(<<"d">>)},
     o \in OtherKeys, ov \in OtherVals \cup {Absent}}

\* The SNS envelope around a payload: {'Type': 'Notification', 'Message': text}
Envelope(message) == [k \in {"Type", "Message"} |->
                        IF k = "Type" THEN Str(<<"N">>) ELSE message]

\* Envelopes whose 'Message' is no JSON object: null, empty text, text that
\* is not JSON, a JSON string, an object cut short.
MalformedPayloads ==
  {Envelope(m) : m \in {Null, Str(<<>>), Str(<<"x">>),
                        Str(<<Quote, "x", Quote>>),
                        Str(<<"{", Quote, "AlarmName", Quote>>)}}

PatternConfigs == {<<>>, <<<<"a">>>>, <<<<"A">>>>, <<<<"-">>, <<"a", "a">>>>, <<<<>>>>}

AlertInput(p, pats) ==
  [kind |-> "alert", sns_message |-> p, ignore_patterns |-> pats,
   stage |-> "input", parsed |-> ValueError, valid |-> "none",
   rewrapped |-> ValueError, did_rewrap |-> FALSE]

AlertInputs ==
  {AlertInput(p, <<>>) : p \in DirectPayloads}
  \cup {AlertInput(Envelope(Str(Dumps(p))), <<>>) : p \in DirectPayloads}
  \cup {AlertInput(p, <<>>) : p \in MalformedPayloads}
  \cup {AlertInput(p, pats) :
          p \in {d \in DirectPayloads : DOMAIN d \subseteq {"AlarmName", "NewStateValue"}},
          pats \in PatternConfigs}

\* ------------------------------------------------ alert harness actions
\* CloudWatchAlert.from_sns_message applied to the drawn payload.
HParse ==
  /\ harness.kind = "alert" /\ harness.stage = "input"
  /\ harness' = [harness EXCEPT !.stage = "parsed",
                                !.parsed = from_sns_message(harness.sns_message)]
  /\ UNCHANGED sysvars

\* validate_alert applied to the parsed alert.
HValidate ==
  /\ harness.kind = "alert" /\ harness.stage = "parsed" /\ harness.parsed.ok
  /\ harness.valid = "none"
  /\ harness' = [harness EXCEPT !.valid =
                   validate_alert(harness.parsed.alert, harness.ignore_patterns)]
  /\ UNCHANGED sysvars

\* The same mapping sent JSON-encoded under 'Message' of an SNS envelope.
HRewrap ==
  /\ harness.kind = "alert" /\ harness.stage = "parsed" /\ ~harness.did_rewrap
  /\ "Message" \notin DOMAIN harness.sns_message
  /\ harness' = [harness EXCEPT !.did_rewrap = TRUE,
                   !.rewrapped = from_sns_message(Envelope(Str(Dumps(harness.sns_message))))]
  /\ UNCHANGED sysvars

AlertInit == SysIdle /\ harness \in AlertInputs
AlertNext == HParse \/ HValidate \/ HRewrap
SpecAlert == AlertInit /\ [][AlertNext]_vars

\* ------------------------------------------------------ ranking harness
Lab == <<"l", "a", "b">>
Mob == <<"m", "o", "b">>
Ram == <<"r", "a", "m">>

Repo(owner, name, alert_keywords, priority) ==
  [owner |-> owner, name |-> name, alert_keywords |-> alert_keywords,
   priority |-> priority]

\* Repository configurations: with and without keywords, every priority, two
\* that differ in the owner alone, one scoring exactly 0.1 without an overlap.
RepoProfiles ==
  {Repo("x", Lab, <<Lab, Mob>>, "high"),
   Repo("x", <<"o", "r", "b">>, <<>>, "low"),
   Repo("y", <<"o", "r", "b">>, <<>>, "low"),
   Repo("x", Mob \o <<"-">> \o Lab, <<>>, "low"),
   Repo("x", Mob, <<<<"L", "A", "B">>>>, "medium"),
   Repo("x", <<"b", "a", "r">>, <<<<"b", "a", "r">>>>, "medium")}

AlertWith(alarm_name, namespace, metric_name) ==
  [f \in AlertFields |->
     CASE f = "alarm_name" -> alarm_name
       [] f = "namespace" -> namespace
       [] f = "metric_name" -> metric_name
       [] f = "state" -> Str(ALARM)
       [] OTHER -> EmptyStr]

\* Alerts with zero to three keywords, one whose name is None.
RankAlerts ==
  {AlertWith(Str(<<"a", "b">>), EmptyStr, EmptyStr),
   AlertWith(Str(Lab), EmptyStr, Null),
   AlertWith(Str(<<"L", "a", "b", "-">> \o Mob), EmptyStr, EmptyStr),
   AlertWith(Str(Lab \o <<"_">> \o Mob), Str(<<"t", "h", "e", "/">> \o Lab), EmptyStr),
   AlertWith(Str(Lab \o <<" ">> \o Mob), Str(Ram), Str(Lab)),
   AlertWith(Null, Str(Lab), EmptyStr),
   AlertWith(Str(Lab), Num(5), EmptyStr)}

RankInputs ==
  {[kind |-> "rank", alert |-> a, repo_configs |-> rs, calls |-> 0,
    ranked |-> <<>>, ranked_again |-> <<>>] :
     a \in RankAlerts, rs \in UNION {[1..k -> RepoProfiles] : k \in 0..MaxRepos}}

\* identify_relevant_repositories called on the drawn alert and repositories.
HRank ==
  /\ harness.kind = "rank" /\ harness.calls = 0
  /\ \E alert_keywords \in Orderings(extract_alert_keywords(harness.alert).words) :
       harness' = [harness EXCEPT !.calls = 1,
                     !.ranked = identify_relevant_repositories(
                                  harness.alert, harness.repo_configs, alert_keywords)]
  /\ UNCHANGED sysvars

\* The same call once more; the keyword list may come out in another order.
HRankAgain ==
  /\ harness.kind = "rank" /\ harness.calls = 1
  /\ \E alert_keywords \in Orderings(extract_alert_keywords(harness.alert).words) :
       harness' = [harness EXCEPT !.calls = 2,
                     !.ranked_again = identify_relevant_repositories(
                                        harness.alert, harness.repo_configs, alert_keywords)]
  /\ UNCHANGED sysvars

RankInit == SysIdle /\ harness \in RankInputs
RankNext == HRank \/ HRankAgain
SpecRank == RankInit /\ [][RankNext]_vars

\* ------------------------------------------------------ keyword harness
Low == <<"l", "o", "w">>
\* The characters put between two words of a field.
Separators == {"-", "_", "/", " ", "."}
KeywordWords == {Lab, <<"M", "o", "b">>, <<"a", "b">>}
\* A word, or two words with a separator between them.
Phrases == KeywordWords \cup
           {w1 \o <<sep>> \o w2 : w1 \in KeywordWords, sep \in Separators, w2 \in KeywordWords}

AlertAbout(alarm_name, namespace, metric_name, reason) ==
  [f \in AlertFields |->
     CASE f = "alarm_name" -> alarm_name
       [] f = "namespace" -> namespace
       [] f = "metric_name" -> metric_name
       [] f = "reason" -> reason
       [] f = "state" -> Str(ALARM)
       [] OTHER -> EmptyStr]

\* Alerts whose name is any phrase, with and without a namespace, a metric
\* name and a reason; reasons with and without a word holding a technical
\* term.
KeywordAlerts ==
  {AlertAbout(Str(name), namespace, metric_name, reason) :
     name \in Phrases,
     namespace \in {EmptyStr, Str(Ram \o <<"/">> \o Lab), Str(Ram \o <<"_">> \o Lab),
                    Str(<<"a", "b", "-">> \o Ram)},
     metric_name \in {EmptyStr, Str(Mob \o <<"_">> \o Ram), Str(Ram \o <<".">> \o Mob)},
     reason \in {EmptyStr, Str(<<"L", "o", "w", "e", "r", " ">> \o Ram),
                 Str(Mob \o <<" ">> \o Low \o <<" ", "a", "b">>), Str(Lab \o <<" ">> \o Ram)}}

KeywordInputs ==
  {[kind |-> "keywords", alert |-> a, extracted |-> FALSE, keywords |-> Raised,
    ranked |-> FALSE, alert_keywords |-> Raised] : a \in KeywordAlerts}

\* CloudWatchAlertHandler.extract_keywords applied to the drawn alert.
HExtract ==
  /\ harness.kind = "keywords" /\ ~harness.extracted
  /\ harness' = [harness EXCEPT !.extracted = TRUE,
                                !.keywords = extract_keywords(harness.alert)]
  /\ UNCHANGED sysvars

\* GitHubHandler._extract_alert_keywords applied to the drawn alert.
HExtractForRanking ==
  /\ harness.kind = "keywords" /\ ~harness.ranked
  /\ harness' = [harness EXCEPT !.ranked = TRUE,
                                !.alert_keywords = extract_alert_keywords(harness.alert)]
  /\ UNCHANGED sysvars

KeywordInit == SysIdle /\ harness \in KeywordInputs
KeywordNext == HExtract \/ HExtractForRanking
SpecKeywords == KeywordInit /\ [][KeywordNext]_vars

\* ------------------------------------------------ the system at work
\* Configurations: without, with an empty and with a real access token; no
\* repository, and up to MaxRepos - 1 of them; with and without an ignore
\* pattern.
Config(access_token, repositories, ignore_patterns) ==
  [access_token |-> access_token, repositories |-> repositories,
   ignore_patterns |-> ignore_patterns]

ConfiguredRepos ==
  <<Repo("x", Lab, <<Mob, Ram>>, "high"),
    Repo("x", Mob, <<<<"L", "A", "B">>>>, "medium"),
    Repo("x", Mob \o <<"-">> \o Lab, <<>>, "low"),
    Repo("x", <<"o", "r", "b">>, <<>>, "low")>>

Configs ==
  {Config("absent", <<>>, <<>>), Config("absent", Top(ConfiguredRepos, 1), <<>>),
   Config("empty", Top(ConfiguredRepos, 1), <<>>), Config("set", <<>>, <<>>)}
  \cup {Config("set", Top(ConfiguredRepos, k), <<>>) : k \in 1..(MaxRepos - 1)}
  \cup {Config("set", Top(ConfiguredRepos, 1), <<<<"-">>>>)}

Payload(alarm_name, state, metric_name, namespace) ==
  DictOf([k \in {"AlarmName", "NewStateValue", "MetricName", "Namespace"} |->
            CASE k = "AlarmName" -> alarm_name
              [] k = "NewStateValue" -> state
              [] k = "MetricName" -> metric_name
              [] OTHER -> namespace])

\* The payloads that arrive: alarms with one, two and no keyword, direct and
\* in an envelope, one with a metric to look up, one whose name is null, one
\* that is no alarm, one in another state (with a metric to look up), and an
\* envelope without a message.
Payloads ==
  {Payload(Str(Lab \o <<"-">> \o Mob), Str(ALARM), Absent, Absent),
   Envelope(Str(Dumps(Payload(Str(Lab), Str(ALARM), Str(Mob), Str(Ram))))),
   Payload(Str(<<"a", "b">>), Str(ALARM), Absent, Absent),
   Payload(Null, Str(ALARM), Absent, Absent),
   Payload(Str(Lab), Str(OK), Str(Mob), Str(Ram)),
   [k \in {"invalid"} |-> Str(<<"d">>)],
   Envelope(Null)}

Init ==
  /\ config \in Configs
  /\ active_jobs = <<>>
  /\ task = <<>>
  /\ running = NoJob
  /\ clock = 0
  /\ returned = [kind |-> "none", alert |-> <<>>, job_id |-> NoJob, jobs_before |-> {},
                 response |-> [status_code |-> "", message |-> "", job_id |-> NoJob],
                 effects |-> [get_metric_statistics |-> FALSE, logged |-> <<>>]]
  /\ harness = Idle

Next ==
  \/ \E alert_data \in Payloads : ProcessAlert(alert_data)
  \/ \E j \in JobIds :
       \/ Begin(j)
       \/ Identify(j)
       \/ CloneOk(j)
       \/ CloneRaises(j)
       \/ Analyze(j)
       \/ CreatePullRequestOk(j)
       \/ CreatePullRequestRaises(j)
       \/ Finish(j)

Spec == Init /\ [][Next]_vars

\* A step of the task of job j.
JobStep(j) ==
  \/ Begin(j) \/ Identify(j) \/ CloneOk(j) \/ CloneRaises(j) \/ Analyze(j)
  \/ CreatePullRequestOk(j) \/ CreatePullRequestRaises(j) \/ Finish(j)

\* The task of job j can take a step: it holds the event loop, or the loop is
\* free and the task created at line 98 has not started.  This is
\* ENABLED <<JobStep(j)>>_vars computed from the guards of the steps.
Runnable(j) ==
  j \in DOMAIN task /\ (running = j \/ (running = NoJob /\ task[j].pc = "start"))

\* A step of the task of job j has happened: only such a step changes task[j].
TaskMoves(j) == j \in DOMAIN task /\ task'[j] # task[j]

\* The event loop runs every task it was given (line 98), and every call a
\* task makes returns or raises: weak fairness of JobStep(j), written out as
\* "infinitely often not enabled, or infinitely often taken".
FairSpec ==
  Spec /\ \A j \in JobIds : ([]<>~Runnable(j)) \/ []<><<TaskMoves(j)>>_vars

\* ------------------------------------------------------------- claim C10
RECURSIVE ScoresOf(_, _, _)
\* The score the source computes for each entry of a repository list.
ScoresOf(alert_keywords, repo_configs, i) ==
  IF i > Len(repo_configs) THEN <<>>
  ELSE <<calculate_relevance_score(alert_keywords, repo_configs[i])>>
       \o ScoresOf(alert_keywords, repo_configs, i + 1)

\* The scores of the drawn repository list for the drawn alert.
HarnessScores ==
  LET kw == extract_alert_keywords(harness.alert)
  IN IF kw.ok
     THEN ScoresOf(CHOOSE seq \in Orderings(kw.words) : TRUE, harness.repo_configs, 1)
     ELSE [i \in 1..Len(harness.repo_configs) |-> Score(0, 10, 0)]

\* C10: identify_relevant_repositories returns the first three entries of the
\* above-threshold (repository, score) pairs in descending score order, equal
\* scores in input order (an entry's place is after every entry with a higher
\* score and after every earlier entry with the same score); it never returns
\* more than 3 entries, and a repeated call on the same alert and repository
\* list returns the same.
C10_RankTopThreeStable ==
  (harness.kind = "rank" /\ harness.calls >= 1) =>
    LET scores == HarnessScores
        above == {i \in 1..Len(scores) : Less(Threshold, scores[i])}
        place(i) == 1 + Cardinality({k \in above :
                           \/ Less(scores[i], scores[k])
                           \/ (scores[k] = scores[i] /\ k < i)})
    IN /\ Len(harness.ranked) = Min(3, Cardinality(above))
       /\ Len(harness.ranked) <= 3
       /\ \A i \in above : place(i) <= 3 =>
            harness.ranked[place(i)] = Scored(harness.repo_configs[i], scores[i])
       /\ harness.calls = 2 => harness.ranked_again = harness.ranked

\* More than three repositories above the threshold, two of them with equal
\* scores among the first three, ranked twice.
C10_Witness ==
  /\ harness.kind = "rank" /\ harness.calls = 2
  /\ Cardinality({i \in 1..Len(HarnessScores) : Less(Threshold, HarnessScores[i])}) > 3
  /\ Len(harness.ranked) = 3
  /\ \E p \in 1..2 : /\ harness.ranked[p].score = harness.ranked[p + 1].score
                     /\ harness.ranked[p].repo # harness.ranked[p + 1].repo

\* ----------------------------------------------------- claims C11, C12
\* C11: a repository is in the output of identify_relevant_repositories only
\* if its score is strictly greater than 0.1; one that scores exactly 0.1 or
\* less is never in it, and the output is the empty sequence when no
\* repository clears the threshold or the alert has no keywords.
C11_AboveThresholdOnly ==
  (harness.kind = "rank" /\ harness.calls >= 1) =>
    LET scores == HarnessScores
        tenth == Score(1, 10, 0)
        kw == extract_alert_keywords(harness.alert)
    IN /\ \A p \in 1..Len(harness.ranked) :
            /\ Less(tenth, harness.ranked[p].score)
            /\ \E i \in 1..Len(scores) :
                 /\ harness.repo_configs[i] = harness.ranked[p].repo
                 /\ scores[i] = harness.ranked[p].score
       /\ \A i \in 1..Len(scores) :
            ~Less(tenth, scores[i]) =>
              \A p \in 1..Len(harness.ranked) :
                harness.ranked[p].repo # harness.repo_configs[i]
       /\ (\A i \in 1..Len(scores) : ~Less(tenth, scores[i])) => harness.ranked = <<>>
       /\ (~kw.ok \/ kw.words = {}) => harness.ranked = <<>>

\* A repository list with one that scores exactly 0.1 and is left out, and
\* one above that is ranked.
C11_Witness ==
  /\ harness.kind = "rank" /\ harness.calls >= 1
  /\ harness.ranked # <<>>
  /\ \E i \in 1..Len(HarnessScores) :
       /\ HarnessScores[i] = Score(HarnessScores[i].den \div 10, HarnessScores[i].den, 0)
       /\ HarnessScores[i].den > 0
       /\ \A p \in 1..Len(harness.ranked) :
            harness.ranked[p].repo # harness.repo_configs[i]

\* The numerator, over 10 * n, of K + P + N for n keywords A and a repository.
FormulaTenths(A, n, repo) ==
  LET K == IF repo.alert_keywords # <<>>
           THEN 8 * Cardinality(A \cap {Lower(k) : k \in Range(repo.alert_keywords)})
           ELSE 3 * n
      P == CASE repo.priority = "high" -> 2 * n
             [] repo.priority = "medium" -> n
             [] OTHER -> 0
      N == 3 * Cardinality(A \cap Range(extract_words_from_text(Str(repo.name)).words))
  IN K + P + N

\* C12: for non-empty alert keywords the score is min(1.0, K + P + N), with
\* K = |keywords /\ repository keywords| / |keywords| * 0.8 (0.3 for a
\* repository without keywords), P = 0.2, 0.1, 0.0 by priority and
\* N = |keywords /\ name tokens| / |keywords| * 0.3; for no keywords it is 0;
\* so it lies between 0 and 1.  (Equality is up to the rounding of the double
\* arithmetic.)
C12_ScoreFormula ==
  (harness.kind = "rank" /\ harness.calls >= 1 /\ extract_alert_keywords(harness.alert).ok) =>
    LET A == extract_alert_keywords(harness.alert).words
        n == Cardinality(A)
        scores == HarnessScores
    IN \A i \in 1..Len(scores) :
         LET t == FormulaTenths(A, n, harness.repo_configs[i])
         IN /\ scores[i].den > 0
            /\ 0 <= scores[i].num /\ scores[i].num <= scores[i].den
            /\ ~Less(Score(1, 1, 0), scores[i])
            /\ n = 0 => scores[i].num = 0
            /\ (n > 0 /\ t >= 10 * n) => scores[i] = Score(1, 1, 0)
            /\ (n > 0 /\ t < 10 * n) => scores[i].num * 10 * n = t * scores[i].den
            /\ \A p \in 1..Len(harness.ranked) :
                 harness.ranked[p].repo = harness.repo_configs[i] =>
                   harness.ranked[p].score = scores[i]

\* A ranked list with one score capped at 1.0 and one made of all three terms
\* below it, for an alert of two keywords or more.
C12_Witness ==
  /\ harness.kind = "rank" /\ harness.calls >= 1
  /\ extract_alert_keywords(harness.alert).ok
  /\ LET A == extract_alert_keywords(harness.alert).words
         n == Cardinality(A)
     IN /\ n >= 2
        /\ \E p, q \in 1..Len(harness.ranked) :
             /\ FormulaTenths(A, n, harness.ranked[p].repo) > 10 * n
             /\ harness.ranked[p].score = Score(1, 1, 0)
             /\ FormulaTenths(A, n, harness.ranked[q].repo) < 10 * n
             /\ harness.ranked[q].repo.alert_keywords # <<>>
             /\ harness.ranked[q].repo.priority # "low"

\* ------------------------------------------------------ claims C1 .. C9
\* p occurs in s: s is some prefix, then p, then some suffix.
OccursIn(p, s) ==
  \E j \in 0..Len(s), k \in 0..Len(s) : j <= k /\ SubSeq(s, j + 1, k) = p

RECURSIVE TokensOf(_, _, _, _)
\* The maximal runs of characters of text that are no separators.
TokensOf(text, i, word, acc) ==
  IF i > Len(text) THEN (IF word = <<>> THEN acc ELSE acc \cup {word})
  ELSE IF text[i] \in Separators
  THEN TokensOf(text, i + 1, <<>>, IF word = <<>> THEN acc ELSE acc \cup {word})
  ELSE TokensOf(text, i + 1, Append(word, text[i]), acc)

\* The lower-cased tokens of a field that are longer than two characters.
FieldTokens(v) == {w \in TokensOf(Lower(v.s), 1, <<>>, {}) : Len(w) > 2}

\* C13: extract_keywords returns exactly the lower-cased tokens longer than
\* two characters got by splitting the alarm name, the namespace and the
\* metric name on every non-alphanumeric separator ('-', '_' and '/' in each
\* of the three fields), together with the tokens of the reason that contain
\* one of error, exception, timeout, fail, high, low.
C13_KeywordsAreTokens ==
  (harness.kind = "keywords" /\ harness.extracted) =>
    /\ harness.keywords.ok
    /\ harness.keywords.words =
         FieldTokens(harness.alert.alarm_name)
         \cup FieldTokens(harness.alert.namespace)
         \cup FieldTokens(harness.alert.metric_name)
         \cup {w \in TokensOf(Lower(harness.alert.reason.s), 1, <<>>, {}) :
                 \E tech \in technical_keywords : OccursIn(tech, w)}

\* C27: the keywords the ranking scores repositories against are the set
\* extract_keywords gives for the same alert, technical-term tokens of the
\* reason included.
C27_RankingUsesExtractKeywords ==
  (harness.kind = "keywords" /\ harness.extracted /\ harness.ranked) =>
    /\ harness.alert_keywords.ok = harness.keywords.ok
    /\ harness.alert_keywords.words = harness.keywords.words

C2_TerminalHasCompletedAt ==
  \A j \in DOMAIN active_jobs :
    active_jobs[j].status \in Terminal => active_jobs[j].completed_at # NoTime

\* C3: a job with two candidates, of which exactly one raised and the other
\* got its pull request, ends completed with exactly one pull request and with
\* the error message of the candidate that raised, whichever of the two it was.
C3_OneFailureOneSuccess ==
  \A j \in DOMAIN active_jobs :
    \A a, b \in 1..2 :
      (/\ task[j].pc = "done" /\ Len(task[j].log) = 2 /\ a # b
       /\ task[j].log[a].what = "raised"
       /\ task[j].log[b].what = "pull_request")
      => /\ active_jobs[j].status = "completed"
         /\ Len(active_jobs[j].pull_requests) = 1
         /\ active_jobs[j].error_message = task[j].log[a].message

\* Two finished jobs: in one the first candidate raised and the second got
\* its pull request, in the other the other way round.
C3_Witness ==
  \E j, k \in DOMAIN active_jobs :
    /\ task[j].pc = "done" /\ task[k].pc = "done"
    /\ Len(task[j].log) = 2 /\ Len(task[k].log) = 2
    /\ task[j].log[1].what = "raised" /\ task[j].log[2].what = "pull_request"
    /\ task[k].log[1].what = "pull_request" /\ task[k].log[2].what = "raised"

\* C4: once a job's status is terminal, no step changes any of its fields,
\* so no two later get_job_status results differ.
C4_TerminalJobFrozen ==
  [][\A j \in DOMAIN active_jobs :
       active_jobs[j].status \in Terminal =>
         /\ j \in DOMAIN active_jobs'
         /\ active_jobs'[j] = active_jobs[j]
         /\ JobStatus(j)' = JobStatus(j)]_vars

\* A job that was terminal while another one was admitted, processed and
\* finished.
C4_Witness ==
  \E j, k \in DOMAIN active_jobs :
    /\ active_jobs[j].status \in Terminal /\ active_jobs[k].status \in Terminal
    /\ active_jobs[j].completed_at # NoTime
    /\ active_jobs[k].created_at > active_jobs[j].completed_at
    /\ active_jobs[k].completed_at > active_jobs[k].created_at

\* The alert fails validation: another state than ALARM, or an ignore pattern
\* in the lower-cased name.
FailsValidation(alert) ==
  \/ alert.state # Str(ALARM)
  \/ /\ IsStr(alert.alarm_name)
     /\ \E i \in 1..Len(config.ignore_patterns) :
          OccursIn(config.ignore_patterns[i], Lower(alert.alarm_name.s))

\* C5: an alert that fails validation gets no registry entry: process_alert
\* returns no job id and leaves the registry as it was; the alert of every
\* registered job is in state ALARM and passes validation.
C5_RejectedAlertNotRegistered ==
  /\ \A j \in DOMAIN active_jobs : ~FailsValidation(active_jobs[j].alert)
  /\ (returned.kind \in {"None", "job_id", "AttributeError", "KeyError"}
      /\ FailsValidation(returned.alert))
     => /\ returned.kind = "None" /\ returned.job_id = NoJob
        /\ DOMAIN active_jobs = returned.jobs_before
  /\ returned.kind = "job_id" =>
       /\ returned.job_id \in DOMAIN active_jobs \ returned.jobs_before
       /\ DOMAIN active_jobs = returned.jobs_before \cup {returned.job_id}

\* process_alert has just turned down an ALARM alert for its name, with a job
\* in the registry.
C5_Witness ==
  /\ returned.kind = "None" /\ returned.alert.state = Str(ALARM)
  /\ DOMAIN active_jobs # {}

C15_JobIdentityKept ==
  [][\A j \in DOMAIN active_jobs :
       /\ j \in DOMAIN active_jobs'
       /\ JobStatus(j)'.job_id = JobStatus(j).job_id
       /\ active_jobs'[j].alert = active_jobs[j].alert
       /\ active_jobs'[j].repositories = active_jobs[j].repositories
       /\ active_jobs'[j].created_at = active_jobs[j].created_at]_vars

\* A job the processor took through two candidates to the end, with an error
\* recorded and a pull request created, and another job admitted after it.
C15_Witness ==
  \E j, k \in DOMAIN active_jobs :
    /\ active_jobs[j].status = "completed" /\ active_jobs[j].error_message.set
    /\ active_jobs[k].created_at > active_jobs[j].completed_at

\* C16: the answer to a posted alert tells how admission went: it carries the
\* id of the job that was created, says 'skipped' when validation failed, and
\* is a client error, with no job created, when the payload is malformed.
C16_ResponseReflectsAdmission ==
  /\ returned.kind = "job_id" => returned.response.job_id = returned.job_id
  /\ returned.kind = "None" => returned.response.message = "skipped"
  /\ returned.kind = "ValueError" =>
       /\ returned.response.status_code \in {"400", "422"}
       /\ DOMAIN active_jobs = returned.jobs_before

\* The ranking of a job's alert over a repository list.
RankingFor(alert, repo_configs) ==
  LET kw == extract_alert_keywords(alert)
  IN IF kw.ok
     THEN identify_relevant_repositories(
            alert, repo_configs, CHOOSE seq \in Orderings(kw.words) : TRUE)
     ELSE <<>>

\* C17: with no GitHub credentials configured, every alert that passes
\* validation gets a registered job, which ends failed with 'GitHub handler
\* not configured' without any clone, agent or pull-request call.
C17_NoCredentialsFailsJob ==
  config.access_token # "set" =>
    /\ returned.kind \in {"job_id", "KeyError"} =>
         /\ returned.kind = "job_id"
         /\ returned.job_id \in DOMAIN active_jobs
    /\ \A j \in DOMAIN active_jobs :
         /\ task[j].pc \in {"start", "identify", "done"}
         /\ task[j].log = <<>>
         /\ task[j].pc = "done" =>
              /\ active_jobs[j].status = "failed"
              /\ active_jobs[j].error_message = Msg("GitHub handler not configured", <<>>)

\* C18: when the ranking of a job's alert is empty the job is in the
\* registry and ends failed with 'No relevant repositories found'; no clone,
\* agent or pull-request call is made for it and it is not processed again.
C18_EmptyRankingFailsJob ==
  \A j \in DOMAIN active_jobs :
    (/\ config.access_token = "set"
     /\ active_jobs[j].status # "pending" /\ task[j].pc # "identify"
     /\ RankingFor(active_jobs[j].alert, active_jobs[j].repositories) = <<>>)
    => /\ task[j].pc = "done" /\ task[j].log = <<>> /\ task[j].i = 0
       /\ active_jobs[j].status = "failed"
       /\ active_jobs[j].error_message = Msg("No relevant repositories found", <<>>)
       /\ active_jobs[j].pull_requests = <<>>
       /\ ~active_jobs[j].orchestrator_response.set

\* A job over configured repositories of which none is relevant to its alert,
\* failed, and a later job that was processed after it.
C18_Witness ==
  \E j, k \in DOMAIN active_jobs :
    /\ config.access_token = "set" /\ active_jobs[j].repositories # <<>>
    /\ task[j].pc = "done"
    /\ active_jobs[j].error_message = Msg("No relevant repositories found", <<>>)
    /\ active_jobs[k].created_at > active_jobs[j].created_at
    /\ task[k].pc = "done"

\* The message of the last candidate that raised, if one did.
LastRaised(log) ==
  LET raised == {p \in 1..Len(log) : log[p].what = "raised"}
  IN IF raised = {} THEN NoMessage
     ELSE log[CHOOSE p \in raised : \A q \in raised : q <= p].message

\* C19: every failed job has an error message: the error recorded while it
\* was processed if there is one, else 'No pull requests created'.
C19_FailedHasMessage ==
  \A j \in DOMAIN active_jobs :
    active_jobs[j].status = "failed" =>
      /\ active_jobs[j].error_message.set
      /\ active_jobs[j].error_message.text # ""
      /\ task[j].log # <<>> =>
           active_jobs[j].error_message =
             (IF LastRaised(task[j].log).set THEN LastRaised(task[j].log)
              ELSE Msg("No pull requests created", <<>>))

\* Two failed jobs that went through their candidates: one with the error a
\* candidate raised, one, where none raised, with the default message.
C19_Witness ==
  \E j, k \in DOMAIN active_jobs :
    /\ active_jobs[j].status = "failed" /\ active_jobs[k].status = "failed"
    /\ LastRaised(task[j].log).set
    /\ task[k].log # <<>> /\ ~LastRaised(task[k].log).set

\* C20: the repositories of every job in the registry are the ranking of its
\* alert over the configured repositories: at most 3, each scoring above 0.1,
\* in descending order of score.
C20_JobHoldsRanking ==
  \A j \in DOMAIN active_jobs :
    LET ranked == RankingFor(active_jobs[j].alert, config.repositories)
    IN /\ Len(active_jobs[j].repositories) <= 3
       /\ active_jobs[j].repositories = [p \in 1..Len(ranked) |-> ranked[p].repo]

\* C21: if every collaborator call returns or raises, every registered job
\* eventually is completed or failed; none stays pending, analyzing or
\* creating_prs for ever.
C21_EveryJobTerminates ==
  \A j \in JobIds :
    (j \in DOMAIN active_jobs) ~>
      (j \in DOMAIN active_jobs /\ active_jobs[j].status \in Terminal)

\* Two jobs in the registry, both terminal, one of them after two candidates.
C21_Witness ==
  /\ Cardinality(DOMAIN active_jobs) = 2
  /\ \A j \in DOMAIN active_jobs : active_jobs[j].status \in Terminal
  /\ \E j \in DOMAIN active_jobs : Len(task[j].log) = 2

\* C22: every status change of a job is a step of the chain pending ->
\* analyzing -> generating_fixes -> creating_prs -> completed, or goes from a
\* non-terminal stage to failed.
StatusChain ==
  {<<"pending", "analyzing">>, <<"analyzing", "generating_fixes">>,
   <<"generating_fixes", "creating_prs">>, <<"creating_prs", "completed">>}
C22_StatusFollowsChain ==
  [][\A j \in DOMAIN active_jobs :
       active_jobs'[j].status # active_jobs[j].status =>
         \/ <<active_jobs[j].status, active_jobs'[j].status>> \in StatusChain
         \/ active_jobs[j].status \notin Terminal /\ active_jobs'[j].status = "failed"]_vars

\* C23: a job has status creating_prs only once a fix proposal has been
\* extracted from the agent's output for one of its candidates.
FixProposalExtracted(j) ==
  \/ extract_fixes_from_orchestrator_response(active_jobs[j].orchestrator_response) # <<>>
  \/ \E k \in DOMAIN task[j].log :
       \/ task[j].log[k].what = "pull_request"
       \/ task[j].log[k].what = "raised" /\ task[j].log[k].message.text = "pull request failed"
C23_CreatingPrsAfterFixProposal ==
  \A j \in DOMAIN active_jobs :
    active_jobs[j].status = "creating_prs" => FixProposalExtracted(j)

\* C24: when the agent's invocation fails for a candidate, its error message
\* is the job's error_message (until a later candidate raises), and the next
\* of the first two candidates is processed.
AgentFailedLast(j) ==
  /\ active_jobs[j].orchestrator_response.set
  /\ ~active_jobs[j].orchestrator_response.analysis_complete
  /\ task[j].log # <<>>
  /\ task[j].log[Len(task[j].log)].what = "nothing"
C24_AgentFailureRecorded ==
  \A j \in DOMAIN active_jobs :
    AgentFailedLast(j) =>
      /\ active_jobs[j].error_message = active_jobs[j].orchestrator_response.error
      /\ (task[j].i <= Min(2, Len(task[j].relevant_repos)) => task[j].pc = "clone")

\* C25: a job attempts at most two candidates, the first two of its ranking
\* (which is in descending score order), one after the other: the candidate
\* in hand is the first or the second, every earlier one has ended, and a
\* third is never cloned.
C25_TopTwoInTurn ==
  \A j \in DOMAIN task :
    LET t == task[j]
    IN /\ Len(t.log) <= 2
       /\ t.pc \in {"clone", "analyze", "create_pr"} =>
            /\ t.i \in 1..Min(2, Len(t.relevant_repos))
            /\ Len(t.log) = t.i - 1
       /\ \A a, b \in DOMAIN t.relevant_repos :
            a < b => ~Less(t.relevant_repos[a].score, t.relevant_repos[b].score)
\* A job whose ranking has three candidates ended after attempting two.
C25_Witness ==
  \E j \in DOMAIN task :
    /\ task[j].pc = "done"
    /\ Len(task[j].relevant_repos) = 3
    /\ Len(task[j].log) = 2

\* C26: while a clone, agent or pull-request call of one job is in progress,
\* process_alert can run and register a new alert.
CallInProgress(j) ==
  j \in DOMAIN task /\ task[j].pc \in {"clone", "analyze", "create_pr"}
C26_AdmissionDuringCall ==
  \A j \in JobIds :
    (CallInProgress(j) /\ Cardinality(DOMAIN active_jobs) < MaxJobs)
      => ENABLED (\E alert_data \in Payloads : ProcessAlert(alert_data))

\* C28: a tool result counts as a fix proposal only if it is an object with
\* a proposed_changes field or a true fix_needed field; no other tool result
\* (another JSON object, text that is not JSON) gives a fix proposal or leads
\* to a pull request.
FixProposalShaped(tool_result) == tool_result \in {"proposed_changes", "fix_needed_true"}
C28_OnlyFixShapedResultsCount ==
  \A j \in DOMAIN active_jobs :
    LET result == active_jobs[j].orchestrator_response
    IN /\ extract_fixes_from_orchestrator_response(result)
            = SelectSeq(result.tool_results, FixProposalShaped)
       /\ task[j].pc = "create_pr" =>
            \E k \in DOMAIN result.tool_results : FixProposalShaped(result.tool_results[k])

\* C29: handling an alert that fails validation writes no log entry and
\* calls no external collaborator, the monitoring API included.
C29_RejectedAlertHasNoEffect ==
  returned.kind = "None" =>
    /\ returned.effects.logged = <<>>
    /\ ~returned.effects.get_metric_statistics

\* C30: the second-ranked candidate is attempted even when the first gave a
\* pull request, and a job that has ended holds at most two pull-request
\* URLs, one for each attempted candidate that gave one.
PullRequestOutcomes(log) == {k \in DOMAIN log : log[k].what = "pull_request"}
C30_SecondCandidateAfterSuccess ==
  \A j \in DOMAIN active_jobs :
    task[j].pc = "done" =>
      /\ (/\ Len(task[j].relevant_repos) >= 2
          /\ task[j].log # <<>>
          /\ task[j].log[1].what = "pull_request") => Len(task[j].log) = 2
      /\ Len(active_jobs[j].pull_requests) <= 2
      /\ Len(active_jobs[j].pull_requests) = Cardinality(PullRequestOutcomes(task[j].log))
\* A job ended with a pull request for each of its two candidates.
C30_Witness ==
  \E j \in DOMAIN active_jobs :
    /\ task[j].pc = "done"
    /\ Len(active_jobs[j].pull_requests) = 2
    /\ active_jobs[j].pull_requests[1] # active_jobs[j].pull_requests[2]

\* C6: validate_alert returns false for every alert whose state is not exactly
\* 'ALARM', whatever its other fields (a name that is None included); for an
\* ALARM alert with a string name it returns false exactly when some configured
\* ignore pattern occurs in the lower-cased alarm name, and true otherwise.
C6_ValidateAlert ==
  (harness.kind = "alert" /\ harness.valid # "none") =>
    LET a == harness.parsed.alert
        pats == harness.ignore_patterns
        ignored == \E i \in 1..Len(pats) : OccursIn(pats[i], Lower(a.alarm_name.s))
    IN /\ a.state # Str(ALARM) => harness.valid = "False"
       /\ (a.state = Str(ALARM) /\ IsStr(a.alarm_name)) =>
            harness.valid = (IF ignored THEN "False" ELSE "True")

\* An ALARM alert rejected only because its name is lower-cased before the
\* patterns are looked up.
C6_Witness ==
  /\ harness.kind = "alert" /\ harness.valid = "False"
  /\ harness.parsed.alert.state = Str(ALARM)
  /\ IsStr(harness.parsed.alert.alarm_name)
  /\ \A i \in 1..Len(harness.ignore_patterns) :
       ~OccursIn(harness.ignore_patterns[i], harness.parsed.alert.alarm_name.s)

RecognizedKeys == {KeyOf[f] : f \in AlertFields}

\* C7: parsing a payload that holds none of the recognized alarm fields (such
\* as {'invalid': 'data'}) fails with ValueError.
C7_UnrecognizedPayloadRejected ==
  (/\ harness.kind = "alert" /\ harness.stage = "parsed"
   /\ DOMAIN harness.sns_message \cap (RecognizedKeys \cup {"Message"}) = {})
  => ~harness.parsed.ok

\* C8: a direct alarm mapping and the same mapping JSON-encoded under
\* 'Message' of a wrapper parse to alerts equal in all nine fields.
C8_WrappedEqualsDirect ==
  (harness.kind = "alert" /\ harness.did_rewrap) =>
    /\ harness.parsed.ok /\ harness.rewrapped.ok
    /\ \A f \in AlertFields :
         harness.rewrapped.alert[f] = harness.parsed.alert[f]

\* A mapping with a named alarm and a value that needs escaping, parsed both ways.
C8_Witness ==
  /\ harness.kind = "alert" /\ harness.did_rewrap
  /\ IsStr(harness.parsed.alert.alarm_name)
  /\ harness.parsed.alert.alarm_name.s # <<>>
  /\ \E f \in AlertFields : \E i \in 1..Len(harness.parsed.alert[f].s) :
       harness.parsed.alert[f].s[i] = Backslash

\* C9: for every payload that parse accepts, each of the nine fields is a
\* string (a missing one the empty string, none null), so validation of the
\* parsed alert never fails.
C9_FieldsAreStrings ==
  (harness.kind = "alert" /\ harness.stage = "parsed" /\ harness.parsed.ok) =>
    /\ \A f \in AlertFields : IsStr(harness.parsed.alert[f])
    /\ harness.valid # "AttributeError"

====
